---- MODULE Spec2Model ----
(***************************************************************************)
(* Report lifecycle, upvote toggle, resolution award, classification       *)
(* queue and webhook, and list queries of the civic report backend         *)
(* (MLService / reportController / adminController / User and Report       *)
(* schemas).                                                               *)
(*                                                                         *)
(* Every handler is an async function: it runs without interruption from   *)
(* one await to the next, and other requests run in between.  Each action  *)
(* below is one such uninterrupted piece, ending at the database call it   *)
(* awaits.  A request in flight occupies a slot holding the handler's      *)
(* local variables.                                                        *)
(*                                                                         *)
(* Database semantics used by the handlers:                                *)
(*   findById           reads one document (a snapshot held by the slot);  *)
(*   doc.save()         writes the paths modified on the local document:   *)
(*                      a scalar as an absolute $set, an array push as     *)
(*                      $push (+ $inc __v), a reassigned array as $set     *)
(*                      guarded by the __v read (VersionError otherwise);  *)
(*   findByIdAndUpdate  one atomic update of one document.                 *)
(*                                                                         *)
(* Besides the lifecycle specification Spec, the module holds              *)
(* specifications of the same handlers under other inputs: SpecML (the     *)
(* classification webhook next to the lifecycle handlers), SpecQueue       *)
(* (report creation with its detached enqueue callback), SpecCoords        *)
(* (report creation over a grid of coordinates), SpecQuery (the list       *)
(* queries next to creation and deletion), SpecLedger (the point awards    *)
(* to users who have earned points before), SpecBadge (updateBadge on      *)
(* user documents around the thresholds), SpecRace (the webhook next to    *)
(* upvotes, acknowledgements and deletions in flight), SpecFanout (the     *)
(* realtime clients next to the emitting handlers), SpecSide (the notary   *)
(* and push calls with every outcome), SpecShadow (every writer of a       *)
(* report next to the webhook), SpecMonthly (addPoints and                 *)
(* resetMonthlyPoints), SpecAward and SpecAwardFail (the owner's resolve   *)
(* of two acknowledged reports, without and with failing user reads and    *)
(* writes).  In the specifications                                         *)
(* other than SpecSide the owner has no push token, the notary answers,    *)
(* and the detached notary callback of createReport, which touches         *)
(* neither store nor queue, stays pending.                                 *)
(***************************************************************************)
EXTENDS Integers, Sequences, FiniteSets, TLC

VARIABLES
  reports,   \* Report collection: report id -> stored document
  users,     \* User collection: user id -> [points, monthlyPoints, badge]
  slots,     \* requests in flight: slot -> the handler's position and locals
  started,   \* number of requests received so far
  out,       \* the HTTP exchange answered by the last step, or the result
             \* of the detached callback it ran (NoOut if neither)
  emitted,   \* the Socket.IO events the last step emitted, in order
  queue,     \* the Redis list ml_classification_queue, head first
  tasks,     \* the setImmediate enqueue callbacks that have not run yet
  mlDisabled, \* process.env.DISABLE_ML_PROCESSING === 'true'
  sockets,    \* the realtime connections: open, rooms joined, events received
  notaries,   \* reports whose detached notary callback of createReport is pending
  calls,      \* the notary and push calls made by the last step, in order
  blocked     \* requests that await a side-channel call that never answers

vars ==
  <<reports, users, slots, started, out, emitted, queue, tasks, mlDisabled,
    sockets, notaries, calls, blocked>>

----------------------------------------------------------------------------
(* Bounds and input sets *)

MaxRequests == 5

Users == {"u1", "u2"}
Admins == {"a1"}
IdOrder == <<"r1", "r2">>
ReportIds == {IdOrder[k] : k \in 1..Len(IdOrder)}
BadId == "bad"
ReqIds == ReportIds \cup {BadId}
Slots == {1, 2}

\* a JavaScript undefined (a string field the request does not carry)
\* the clients of the realtime server
Sockets == {"k1", "k2"}

\* what the notary or the push service does with a call: it resolves, it
\* rejects or throws, or it never answers
Outcomes == {"ok", "failed", "hung"}

\* the push call's outcomes; "none": the owner has no fcmToken and no call
\* is made
PushOutcomes == {"none"} \cup Outcomes

Undefined == "undefined"

\* a request without the body the handler reads
NoBody == [empty |-> TRUE]

\* an unset mlConfidence
NoConfidence == <<>>

SubmitterAward == 20
UpvoterAward == 5
SilverAt == 200
GoldAt == 500
PlatinumAt == 1000

----------------------------------------------------------------------------
(* Helpers *)

Range(q) == {q[k] : k \in 1..Len(q)}

\* Array.prototype.filter(id => id !== u)
RECURSIVE Without(_, _)
Without(q, u) ==
  IF q = <<>> THEN <<>>
  ELSE IF Head(q) = u THEN Without(Tail(q), u)
       ELSE <<Head(q)>> \o Without(Tail(q), u)

\* /^[0-9a-fA-F]{24}$/ : the ids the store hands out are well formed
ValidObjectId(rid) == rid # BadId

BadgeOfAbove(points) ==
  IF points > PlatinumAt THEN "Platinum"
  ELSE IF points > GoldAt THEN "Gold"
  ELSE IF points > SilverAt THEN "Silver"
  ELSE "Bronze"

\* userSchema.methods.updateBadge: the badge for a number of points
BadgeOf(points) ==
  IF points >= PlatinumAt THEN "Platinum"
  ELSE IF points >= GoldAt THEN "Gold"
  ELSE IF points >= SilverAt THEN "Silver"
  ELSE "Bronze"

NewUser == [points |-> 0, monthlyPoints |-> 0, badge |-> "Bronze"]

\* userSchema.methods.updateBadge on a user document: the document after the
\* call and the value the call returns
UpdateBadge(u) ==
  [user |-> IF u.badge # BadgeOf(u.points)
              THEN [u EXCEPT !.badge = BadgeOf(u.points)]
              ELSE u,
   changed |-> u.badge # BadgeOf(u.points)]

\* a coordinate as the request body carries it: a JSON number, a form
\* field (a non-empty numeric string) or nothing
Num(n) == [kind |-> "number", val |-> n]
Str(n) == [kind |-> "string", val |-> n]
Missing == [kind |-> "missing", val |-> 0]

\* !x for a coordinate of the body: undefined and the number 0 are falsy, a
\* non-empty string (also "0") is not
Falsy(x) == x.kind = "missing" \/ (x.kind = "number" /\ x.val = 0)

\* a request body of createReport
Body(title, category, latitude, longitude) ==
  [title |-> title, category |-> category,
   latitude |-> latitude, longitude |-> longitude]

PlainBody == Body(Undefined, Undefined, Num(13), Num(78))

OrElseKeeps(x, d) == x

\* x || d
OrElse(x, d) == IF x = Undefined \/ x = "" THEN d ELSE x

ReportDataPreclassified(uid, body) ==
  [reportStatus |-> "SUBMITTED", userId |-> uid, upvotes |-> 0,
   upvotedBy |-> <<>>, v |-> 0, isAcknowledged |-> FALSE,
   acknowledgedAt |-> FALSE, acknowledgedBy |-> "none",
   title |-> OrElse(body.title, "Processing..."),
   department |-> OrElse(body.category, "Processing"),
   severity |-> "MEDIUM",
   coordinates |-> <<body.longitude.val, body.latitude.val>>,
   mlClassified |-> TRUE, mlSeverity |-> "MEDIUM",
   mlDepartment |-> OrElse(body.category, "Processing"),
   mlConfidence |-> NoConfidence,
   mlTitle |-> Undefined, mlConflicts |-> Undefined]

\* createReport's reportData completed by the reportSchema defaults
ReportData(uid, body) ==
  [reportStatus |-> "SUBMITTED", userId |-> uid, upvotes |-> 0,
   upvotedBy |-> <<>>, v |-> 0, isAcknowledged |-> FALSE,
   acknowledgedAt |-> FALSE, acknowledgedBy |-> "none",
   title |-> OrElse(body.title, "Processing..."),
   department |-> OrElse(body.category, "Processing"),
   severity |-> "MEDIUM",
   coordinates |-> <<body.longitude.val, body.latitude.val>>,
   mlClassified |-> FALSE, mlSeverity |-> Undefined,
   mlDepartment |-> Undefined, mlConfidence |-> NoConfidence,
   mlTitle |-> Undefined, mlConflicts |-> Undefined]

\* reportSchema defaults + createReport's reportData
NewReport(uid) == ReportData(uid, PlainBody)

NoDoc ==
  [reportStatus |-> "none", userId |-> "none", upvotes |-> 0,
   upvotedBy |-> <<>>, v |-> 0, isAcknowledged |-> FALSE,
   acknowledgedAt |-> FALSE, acknowledgedBy |-> "none",
   title |-> Undefined, department |-> Undefined, severity |-> Undefined,
   coordinates |-> <<>>,
   mlClassified |-> FALSE, mlSeverity |-> Undefined,
   mlDepartment |-> Undefined, mlConfidence |-> NoConfidence,
   mlTitle |-> Undefined, mlConflicts |-> Undefined]

NoPoints == [u \in Users |-> 0]

\* a slot: the handler's position (pc), its request (op, report id, caller)
\* and its locals: the report document as modified locally, the paths modified
\* on it, oldStatus, the user document of the award step, its modified paths
\* and the step i of the award loop.  was is history kept for the
\* properties: every user's points when the request read the report.
IdleSlot ==
  [pc |-> "idle", op |-> "none", rid |-> "none", uid |-> "none",
   report |-> NoDoc, mods |-> {}, oldStatus |-> "none",
   user |-> NewUser, umods |-> {}, i |-> 0, was |-> NoPoints]

\* an exchange: the request (op, report id, caller, body) and the response
\* (status code, message, and the payload fields the properties read)
NoOut ==
  [op |-> "none", rid |-> "none", uid |-> "none", code |-> 0,
   msg |-> "none", upvotes |-> 0, body |-> NoBody, list |-> {}]

\* res.status(code).json(...)
Respond(op, rid, uid, code, msg) ==
  [op |-> op, rid |-> rid, uid |-> uid, code |-> code, msg |-> msg,
   upvotes |-> 0, body |-> NoBody, list |-> {}]

Exists(rid) == rid \in ReportIds /\ reports[rid] # NoDoc

Created == {r \in ReportIds : reports[r] # NoDoc}

\* a request takes the lowest free slot (requests in flight are anonymous)
FreeSlot(s) ==
  /\ slots[s].pc = "idle"
  /\ \A t \in Slots : t < s => slots[t].pc # "idle"

Accept(s) == started < MaxRequests /\ FreeSlot(s)

Points == [u \in Users |-> users[u].points]

\* the step emits no event and touches neither the queue nor the
\* environment
Quiet ==
  /\ emitted' = <<>>
  /\ UNCHANGED <<queue, tasks, mlDisabled, sockets, notaries>>

\* the step calls neither the notary nor the push service
NoCalls ==
  /\ calls' = <<>>
  /\ UNCHANGED blocked

\* the handler returns a response and holds nothing any more (the handlers
\* that run in a slot emit no event and queue nothing)
Finish(s, resp) ==
  /\ slots' = [slots EXCEPT ![s] = IdleSlot]
  /\ out' = resp
  /\ Quiet
  /\ NoCalls

\* the handler awaits its next database call
Await(s, local) ==
  /\ slots' = [slots EXCEPT ![s] = local]
  /\ out' = NoOut
  /\ Quiet
  /\ NoCalls

\* one call to aptosService (notary) or notificationService (push)
Call(service, op, rid, outcome) ==
  [service |-> service, op |-> op, rid |-> rid, outcome |-> outcome]

\* if (report.userId.fcmToken) await notificationService.send...(...)
PushCall(op, rid, push) ==
  IF push = "none" THEN <<>> ELSE <<Call("push", op, rid, push)>>

\* await aptosService.<op>(reportId, ...)
NotaryCall(op, rid, notary) == <<Call("notary", op, rid, notary)>>

Hung(plan) == \E i \in 1..Len(plan) : plan[i].outcome = "hung"

AttemptStopsAtFailure(plan) ==
  LET bad == {i \in 1..Len(plan) : plan[i].outcome # "ok"} IN
    IF bad = {} THEN plan
    ELSE SubSeq(plan, 1, CHOOSE i \in bad : \A j \in bad : i <= j)

\* the calls a handler makes out of those its code holds in program order:
\* each sits in its own try / catch and is awaited, so a failure is logged
\* and the next call is made, and a call that never answers is the last
Attempt(plan) ==
  LET hung == {i \in 1..Len(plan) : plan[i].outcome = "hung"} IN
    IF hung = {} THEN plan
    ELSE SubSeq(plan, 1, CHOOSE i \in hung : \A j \in hung : i <= j)

\* the handler in slot s makes its side-channel calls and then responds; it
\* never responds if one of them never answers (the slot is given back: the
\* slots bound the requests the model follows, not those the server holds)
FinishAfter(s, resp, plan) ==
  /\ slots' = [slots EXCEPT ![s] = IdleSlot]
  /\ calls' = Attempt(plan)
  /\ IF Hung(plan)
       THEN /\ out' = NoOut
            /\ blocked' = blocked \cup {[op |-> resp.op, rid |-> resp.rid]}
       ELSE /\ out' = resp
            /\ UNCHANGED blocked
  /\ Quiet

\* report.reportStatus = st on the local document: a path counts as modified
\* only when the value differs from the one read
SetStatus(doc, st) == [doc EXCEPT !.reportStatus = st]
StatusMods(doc, st) == IF doc.reportStatus # st THEN {"reportStatus"} ELSE {}

\* the ways save() writes the upvotedBy array; each bumps __v
ArrayPaths == {"upvotedBy.$set", "upvotedBy.$push"}

\* report.save(): true when the update is refused (the reassigned array is
\* guarded by the version that was read)
VersionConflict(stored, local, mods) ==
  "upvotedBy.$set" \in mods /\ stored.v # local.v

SaveDocWhole(stored, local, mods, pushed) == local

\* report.save(): the stored document after the modified paths are written
SaveDoc(stored, local, mods, pushed) ==
  [stored EXCEPT
     !.reportStatus = IF "reportStatus" \in mods THEN local.reportStatus ELSE @,
     !.upvotes = IF "upvotes" \in mods THEN local.upvotes ELSE @,
     !.upvotedBy = IF "upvotedBy.$set" \in mods THEN local.upvotedBy
                   ELSE IF "upvotedBy.$push" \in mods THEN Append(@, pushed)
                   ELSE @,
     !.v = IF mods \cap ArrayPaths # {} THEN @ + 1
           ELSE @]

\* a client that is not connected: it is in no room and holds no event
ClosedSocket == [open |-> FALSE, rooms |-> {}, received |-> <<>>]

\* a client that has just connected
OpenSocket == [ClosedSocket EXCEPT !.open = TRUE]

\* no client is connected, no callback is pending and no call was made
Unconnected ==
  /\ sockets = [k \in Sockets |-> ClosedSocket]
  /\ notaries = {}
  /\ calls = <<>>
  /\ blocked = {}

----------------------------------------------------------------------------
Init ==
  /\ reports = [r \in ReportIds |-> NoDoc]
  /\ users = [u \in Users |-> NewUser]
  /\ slots = [s \in Slots |-> IdleSlot]
  /\ started = 0
  /\ out = NoOut
  /\ emitted = <<>>
  /\ queue = <<>>
  /\ tasks = {}
  /\ mlDisabled = TRUE
  /\ Unconnected

----------------------------------------------------------------------------
(* createReport *)

\* latitude < -90 || latitude > 90 || longitude < -180 || longitude > 180
OutOfRange(body) ==
  \/ body.latitude.val < -90 \/ body.latitude.val > 90
  \/ body.longitude.val < -180 \/ body.longitude.val > 180

\* the job queueClassificationJob builds from the created document
Job(rid, report) == [reportId |-> rid, title |-> report.title]

ScheduleAlways(ts, job) == ts \cup {job}

\* if (process.env.DISABLE_ML_PROCESSING !== 'true') setImmediate(...)
Schedule(ts, job) == IF mlDisabled THEN ts ELSE ts \cup {job}

\* the whole handler up to its response: validation, Report.create (dbOk:
\* the store accepts the insert), the setImmediate of the enqueue callback
CreateReportRequest(uid, body, dbOk) ==
  /\ started < MaxRequests
  /\ started' = started + 1
  /\ emitted' = <<>>
  /\ NoCalls
  /\ UNCHANGED <<users, slots, queue, mlDisabled, sockets>>
  /\ IF Falsy(body.latitude) \/ Falsy(body.longitude)
       THEN /\ out' = [Respond("createReport", "none", uid, 400, "coordinates_required")
                        EXCEPT !.body = body]
            /\ UNCHANGED <<reports, tasks, notaries>>
     ELSE IF OutOfRange(body)
       THEN /\ out' = [Respond("createReport", "none", uid, 400, "invalid_coordinates")
                        EXCEPT !.body = body]
            /\ UNCHANGED <<reports, tasks, notaries>>
     ELSE IF ~dbOk
       THEN /\ out' = [Respond("createReport", "none", uid, 500, "database_error")
                        EXCEPT !.body = body]
            /\ UNCHANGED <<reports, tasks, notaries>>
     ELSE /\ Cardinality(Created) < Len(IdOrder)
          /\ LET rid == IdOrder[Cardinality(Created) + 1] IN
               /\ reports' = [reports EXCEPT ![rid] = ReportData(uid, body)]
               /\ notaries' = notaries \cup {rid}
               /\ tasks' = Schedule(tasks, Job(rid, ReportData(uid, body)))
               /\ out' = [Respond("createReport", rid, uid, 201, "ok")
                           EXCEPT !.body = body]

\* createReport with well-formed coordinates and a store that accepts
CreateReport(uid) == CreateReportRequest(uid, PlainBody, TRUE)

\* the setImmediate callback: mlService.queueClassificationJob(report)
\* (redisOk: the client is or gets connected and the lPush succeeds; a
\* failure is caught and logged)
EnqueueTask(rid, redisOk) ==
  /\ \E job \in tasks :
       /\ job.reportId = rid
       /\ tasks' = tasks \ {job}
       /\ queue' = IF redisOk THEN <<job>> \o queue ELSE queue
  /\ out' = Respond("queueClassificationJob", rid, "none", 0,
                    IF redisOk THEN "success" ELSE "failure")
  /\ emitted' = <<>>
  /\ NoCalls
  /\ UNCHANGED <<reports, users, slots, started, mlDisabled, sockets, notaries>>

\* the other setImmediate callback: aptosService.submitReport raced against
\* a 10 s timer; a rejection, also the timer's, is caught and logged
NotaryCallback(rid, notary) ==
  /\ rid \in notaries
  /\ notaries' = notaries \ {rid}
  /\ calls' = NotaryCall("createReport", rid, notary)
  /\ out' = NoOut
  /\ emitted' = <<>>
  /\ UNCHANGED <<reports, users, slots, started, queue, tasks, mlDisabled,
                 sockets, blocked>>

----------------------------------------------------------------------------
(* acknowledgeReport (report route, admin) *)
AcknowledgeGuard(status) == status = "SUBMITTED"

AcknowledgeReportFind(s, rid) ==
  /\ Accept(s)
  /\ started' = started + 1
  /\ UNCHANGED <<reports, users>>
  /\ IF ~ValidObjectId(rid)
       THEN Finish(s, Respond("acknowledgeReport", rid, "none", 500, "error"))
     ELSE IF ~Exists(rid)
       THEN Finish(s, Respond("acknowledgeReport", rid, "none", 404, "not_found"))
     ELSE IF ~AcknowledgeGuard(reports[rid].reportStatus)
       THEN Finish(s, Respond("acknowledgeReport", rid, "none", 400, "cannot_acknowledge"))
     ELSE Await(s, [IdleSlot EXCEPT
                      !.pc = "save", !.op = "acknowledgeReport", !.rid = rid,
                      !.report = SetStatus(reports[rid], "ACKNOWLEDGED"),
                      !.mods = StatusMods(reports[rid], "ACKNOWLEDGED")])

AcknowledgeReportSave(s) ==
  /\ slots[s].pc = "save" /\ slots[s].op = "acknowledgeReport"
  /\ LET q == slots[s] IN
       /\ reports' = [reports EXCEPT
                        ![q.rid] = SaveDoc(@, q.report, q.mods, q.uid)]
       /\ Finish(s, Respond("acknowledgeReport", q.rid, "none", 200, "ok"))
  /\ UNCHANGED <<users, started>>

----------------------------------------------------------------------------
(* resolveReport (report route, user or admin) *)
ResolveGuardAlsoResolved(status) ==
  status \in {"SUBMITTED", "ACKNOWLEDGED", "RESOLVED"}

ResolveGuard(status) == status \in {"SUBMITTED", "ACKNOWLEDGED"}

ResolveReportFind(s, rid) ==
  /\ Accept(s)
  /\ started' = started + 1
  /\ UNCHANGED <<reports, users>>
  /\ IF ~ValidObjectId(rid)
       THEN Finish(s, Respond("resolveReport", rid, "none", 500, "error"))
     ELSE IF ~Exists(rid)
       THEN Finish(s, Respond("resolveReport", rid, "none", 404, "not_found"))
     ELSE IF ~ResolveGuard(reports[rid].reportStatus)
       THEN Finish(s, Respond("resolveReport", rid, "none", 400, "cannot_resolve"))
     ELSE Await(s, [IdleSlot EXCEPT
                      !.pc = "save", !.op = "resolveReport", !.rid = rid,
                      !.report = SetStatus(reports[rid], "RESOLVED"),
                      !.mods = StatusMods(reports[rid], "RESOLVED"),
                      !.was = Points])

\* report.save(), then the awaited aptosService.resolveReport in its try /
\* catch, then the response
ResolveReportSave(s, notary) ==
  /\ slots[s].pc = "save" /\ slots[s].op = "resolveReport"
  /\ LET q == slots[s] IN
       /\ reports' = [reports EXCEPT
                        ![q.rid] = SaveDoc(@, q.report, q.mods, q.uid)]
       /\ FinishAfter(s, Respond("resolveReport", q.rid, "none", 200, "ok"),
                      NotaryCall("resolveReport", q.rid, notary))
  /\ UNCHANGED <<users, started>>

----------------------------------------------------------------------------
(* deleteReport (report route, admin) *)
DeleteReportFind(s, rid) ==
  /\ Accept(s)
  /\ started' = started + 1
  /\ UNCHANGED <<reports, users>>
  /\ IF ~ValidObjectId(rid)
       THEN Finish(s, Respond("deleteReport", rid, "none", 500, "error"))
     ELSE IF ~Exists(rid)
       THEN Finish(s, Respond("deleteReport", rid, "none", 404, "not_found"))
     ELSE Await(s, [IdleSlot EXCEPT
                      !.pc = "save", !.op = "deleteReport", !.rid = rid,
                      !.report = SetStatus(reports[rid], "DELETED"),
                      !.mods = StatusMods(reports[rid], "DELETED")])

DeleteReportSave(s) ==
  /\ slots[s].pc = "save" /\ slots[s].op = "deleteReport"
  /\ LET q == slots[s] IN
       /\ reports' = [reports EXCEPT
                        ![q.rid] = SaveDoc(@, q.report, q.mods, q.uid)]
       /\ Finish(s, Respond("deleteReport", q.rid, "none", 200, "ok"))
  /\ UNCHANGED <<users, started>>

----------------------------------------------------------------------------
(* updateReportAcknowledge (admin route): one findByIdAndUpdate *)

\* the room of a report: `report-${reportId}`
Topic(rid) == <<"report", rid>>

\* global.io.to(topic).emit('report-status-update', {...})
Event(rid, status, updatedReport) ==
  [topic |-> Topic(rid), name |-> "report-status-update", reportId |-> rid,
   status |-> status, updatedReport |-> updatedReport]

AcknowledgeUpdateResets(doc, admin) ==
  [doc EXCEPT !.isAcknowledged = TRUE, !.acknowledgedAt = TRUE,
              !.acknowledgedBy = admin, !.reportStatus = "ACKNOWLEDGED",
              !.mlClassified = FALSE]

AcknowledgeUpdate(doc, admin) ==
  [doc EXCEPT !.isAcknowledged = TRUE, !.acknowledgedAt = TRUE,
              !.acknowledgedBy = admin, !.reportStatus = "ACKNOWLEDGED"]

MembersEveryone(topic) == {k \in Sockets : sockets[k].open}

\* the sockets in a room when an event is emitted to it
Members(topic) ==
  {k \in Sockets : sockets[k].open /\ topic \in sockets[k].rooms}

\* io.to(room).emit(...): each event goes once to every socket now in its
\* room, in the order of the emits
Deliver(events) ==
  [k \in Sockets |->
     LET Mine(ev) == k \in Members(ev.topic) IN
       [sockets[k] EXCEPT !.received = @ \o SelectSeq(events, Mine)]]

\* the push call, then the notary call, each awaited in its own try / catch
AcknowledgeCalls(rid, push, notary) ==
  PushCall("updateReportAcknowledge", rid, push)
    \o NotaryCall("updateReportAcknowledge", rid, notary)

UpdateReportAcknowledge(rid, admin, push, notary) ==
  /\ started < MaxRequests
  /\ started' = started + 1
  /\ UNCHANGED <<users, slots, queue, tasks, mlDisabled, notaries>>
  /\ IF ~ValidObjectId(rid)
       THEN /\ out' = Respond("updateReportAcknowledge", rid, admin, 500, "error")
            /\ emitted' = <<>>
            /\ NoCalls
            /\ UNCHANGED reports
     ELSE IF ~Exists(rid)
       THEN /\ out' = Respond("updateReportAcknowledge", rid, admin, 404, "not_found")
            /\ emitted' = <<>>
            /\ NoCalls
            /\ UNCHANGED reports
     ELSE /\ reports' = [reports EXCEPT ![rid] = AcknowledgeUpdate(@, admin)]
          /\ emitted' = <<Event(rid, "ACKNOWLEDGED", NoDoc)>>
          /\ calls' = Attempt(AcknowledgeCalls(rid, push, notary))
          /\ IF Hung(AcknowledgeCalls(rid, push, notary))
               THEN /\ out' = NoOut
                    /\ blocked' = blocked \cup
                         {[op |-> "updateReportAcknowledge", rid |-> rid]}
               ELSE /\ out' = Respond("updateReportAcknowledge", rid, admin, 200, "ok")
                    /\ UNCHANGED blocked
  /\ sockets' = Deliver(emitted')

----------------------------------------------------------------------------
(* upvoteReport: toggle the caller's upvote *)

ToggleLocalKeepsCount(doc, uid) ==
  IF uid \in Range(doc.upvotedBy)
    THEN [doc EXCEPT !.upvotedBy = Without(@, uid)]
    ELSE [doc EXCEPT !.upvotes = @ + 1, !.upvotedBy = Append(@, uid)]

\* the local document after lines 595-609
ToggleLocal(doc, uid) ==
  IF uid \in Range(doc.upvotedBy)
    THEN [doc EXCEPT !.upvotes = @ - 1, !.upvotedBy = Without(@, uid)]
    ELSE [doc EXCEPT !.upvotes = @ + 1, !.upvotedBy = Append(@, uid)]

\* the paths modified by the removal (filter reassigns the array) and by
\* the addition (push)
RemovalPaths == {"upvotes", "upvotedBy.$set"}
AdditionPaths == {"upvotes", "upvotedBy.$push"}

\* the paths those lines modify
ToggleMods(doc, uid) ==
  IF uid \in Range(doc.upvotedBy) THEN RemovalPaths ELSE AdditionPaths

UpvoteReportFind(s, rid, uid) ==
  /\ Accept(s)
  /\ started' = started + 1
  /\ UNCHANGED <<reports, users>>
  /\ IF ~ValidObjectId(rid)
       THEN Finish(s, Respond("upvoteReport", rid, uid, 400, "invalid_id"))
     ELSE IF ~Exists(rid)
       THEN Finish(s, Respond("upvoteReport", rid, uid, 404, "not_found"))
     ELSE IF reports[rid].reportStatus = "DELETED"
       THEN Finish(s, Respond("upvoteReport", rid, uid, 400, "deleted"))
     ELSE Await(s, [IdleSlot EXCEPT
                      !.pc = "save", !.op = "upvoteReport",
                      !.rid = rid, !.uid = uid,
                      !.report = ToggleLocal(reports[rid], uid),
                      !.mods = ToggleMods(reports[rid], uid)])

UpvoteReportSave(s) ==
  /\ slots[s].pc = "save" /\ slots[s].op = "upvoteReport"
  /\ UNCHANGED <<users, started>>
  /\ LET q == slots[s] IN
       IF VersionConflict(reports[q.rid], q.report, q.mods)
         THEN /\ UNCHANGED reports
              /\ Finish(s, Respond("upvoteReport", q.rid, q.uid, 500, "error"))
         ELSE /\ reports' = [reports EXCEPT
                               ![q.rid] = SaveDoc(@, q.report, q.mods, q.uid)]
              /\ Finish(s, [Respond("upvoteReport", q.rid, q.uid, 200, "ok")
                              EXCEPT !.upvotes = q.report.upvotes])

----------------------------------------------------------------------------
(* updateReportStatusResolve (owner route) *)
OwnerResolveGuard(status) == status = "ACKNOWLEDGED"

UpdateReportStatusResolveFind(s, rid, uid) ==
  /\ Accept(s)
  /\ started' = started + 1
  /\ UNCHANGED <<reports, users>>
  /\ IF ~ValidObjectId(rid)
       THEN Finish(s, Respond("updateReportStatusResolve", rid, uid, 500, "error"))
     ELSE IF ~Exists(rid)
       THEN Finish(s, Respond("updateReportStatusResolve", rid, uid, 404, "not_found"))
     ELSE IF reports[rid].userId # uid
       THEN Finish(s, Respond("updateReportStatusResolve", rid, uid, 403, "forbidden"))
     ELSE IF ~OwnerResolveGuard(reports[rid].reportStatus)
       THEN Finish(s, Respond("updateReportStatusResolve", rid, uid, 400, "not_acknowledged"))
     ELSE Await(s, [IdleSlot EXCEPT
                      !.pc = "saveReport", !.op = "updateReportStatusResolve",
                      !.rid = rid, !.uid = uid,
                      !.oldStatus = reports[rid].reportStatus,
                      !.report = SetStatus(reports[rid], "RESOLVED"),
                      !.mods = StatusMods(reports[rid], "RESOLVED"),
                      !.was = Points])

\* lines 746: the award block runs when the status read was not RESOLVED
AwardDue(oldStatus) == oldStatus # "RESOLVED"

\* report.save(); without an award the push call and the response follow
UpdateReportStatusResolveSave(s, push) ==
  /\ slots[s].pc = "saveReport"
  /\ LET q == slots[s] IN
       /\ reports' = [reports EXCEPT
                        ![q.rid] = SaveDoc(@, q.report, q.mods, q.uid)]
       /\ IF AwardDue(q.oldStatus)
            THEN Await(s, [q EXCEPT !.pc = "findUser", !.i = 0])
            ELSE FinishAfter(s, Respond("updateReportStatusResolve", q.rid, q.uid, 200, "ok"),
                             PushCall("updateReportStatusResolve", q.rid, push))
  /\ UNCHANGED <<users, started>>

\* whom step i of the award block pays: the submitter, then each entry of
\* the populated upvotedBy in order
Payee(q) == IF q.i = 0 THEN q.report.userId ELSE q.report.upvotedBy[q.i]
Amount(q) == IF q.i = 0 THEN SubmitterAward ELSE UpvoterAward

\* points += n; monthlyPoints += n; updateBadge() on the local user
AddPoints(u, n) ==
  [points |-> u.points + n, monthlyPoints |-> u.monthlyPoints + n,
   badge |-> BadgeOf(u.points + n)]

\* the paths points += n and monthlyPoints += n modify
PointPaths == {"points", "monthlyPoints"}

UserMods(u, n) ==
  PointPaths
    \cup (IF BadgeOf(u.points + n) # u.badge THEN {"badge"} ELSE {})

\* user.save(): the stored user after the modified paths are written
SaveUser(stored, local, mods) ==
  [points |-> IF "points" \in mods THEN local.points ELSE stored.points,
   monthlyPoints |-> IF "monthlyPoints" \in mods THEN local.monthlyPoints
                     ELSE stored.monthlyPoints,
   badge |-> IF "badge" \in mods THEN local.badge ELSE stored.badge]

UpdateReportStatusResolveFindUser(s) ==
  /\ slots[s].pc = "findUser"
  /\ LET q == slots[s] IN
       Await(s, [q EXCEPT !.pc = "saveUser",
                          !.user = AddPoints(users[Payee(q)], Amount(q)),
                          !.umods = UserMods(users[Payee(q)], Amount(q))])
  /\ UNCHANGED <<reports, users, started>>

\* user.save(); after the last award the push call and the response follow
UpdateReportStatusResolveSaveUser(s, push) ==
  /\ slots[s].pc = "saveUser"
  /\ LET q == slots[s] IN
       /\ users' = [users EXCEPT ![Payee(q)] = SaveUser(@, q.user, q.umods)]
       /\ IF q.i < Len(q.report.upvotedBy)
            THEN Await(s, [q EXCEPT !.pc = "findUser", !.i = @ + 1,
                                    !.user = NewUser, !.umods = {}])
            ELSE FinishAfter(s, Respond("updateReportStatusResolve", q.rid, q.uid, 200, "ok"),
                             PushCall("updateReportStatusResolve", q.rid, push))
  /\ UNCHANGED <<reports, started>>

\* User.findById or user.save() of the award block rejects: the catch
\* answers 500; the report was saved before the block
UpdateReportStatusResolveUserFails(s) ==
  /\ slots[s].pc \in {"findUser", "saveUser"}
  /\ Finish(s, Respond("updateReportStatusResolve", slots[s].rid,
                       slots[s].uid, 500, "error"))
  /\ UNCHANGED <<reports, users, started>>

----------------------------------------------------------------------------
(* mlWebhook: the classifier's result for a report *)

\* the classification of a webhook body
Classification(severity, department, title, conflicts, confidence) ==
  [severity |-> severity, department |-> department, title |-> title,
   conflicts |-> conflicts, confidence |-> confidence]

TitleGivenAlsoSentinel(c) == c.title # Undefined /\ c.title # ""

\* classification.title && classification.title !== 'No title'
TitleGiven(c) == c.title # Undefined /\ c.title # "" /\ c.title # "No title"

\* if (classification.conflicts)
ConflictsGiven(c) == c.conflicts # Undefined /\ c.conflicts # ""

\* the paths updateData always holds, and those of a title
ClassifierPaths ==
  {"mlClassified", "mlSeverity", "mlDepartment", "mlConfidence",
   "department", "severity"}
TitlePaths == {"title", "mlTitle"}

\* the paths of updateData
UpdatePaths(c) ==
  ClassifierPaths
    \cup (IF TitleGiven(c) THEN TitlePaths ELSE {})
    \cup (IF ConflictsGiven(c) THEN {"mlConflicts"} ELSE {})

\* the value updateData holds at a path
UpdateValue(c, p) ==
  CASE p = "mlClassified" -> TRUE
    [] p = "mlSeverity" -> c.severity
    [] p = "mlDepartment" -> c.department
    [] p = "mlConfidence" -> c.confidence
    [] p = "department" -> c.department
    [] p = "severity" -> c.severity
    [] p = "title" -> c.title
    [] p = "mlTitle" -> c.title
    [] p = "mlConflicts" -> c.conflicts

UpdateDataResetsStatus(c) ==
  [p \in UpdatePaths(c) \cup {"reportStatus"} |->
     IF p = "reportStatus" THEN "SUBMITTED" ELSE UpdateValue(c, p)]

\* updateData: the paths the webhook sets and their values
UpdateData(c) == [p \in UpdatePaths(c) |-> UpdateValue(c, p)]

ApplySetFlipsFlag(doc, upd) ==
  [f \in DOMAIN doc |->
     IF f = "mlClassified" THEN ~doc[f]
     ELSE IF f \in DOMAIN upd THEN upd[f] ELSE doc[f]]

\* { $set: updateData } on a stored document
ApplySet(doc, upd) ==
  [f \in DOMAIN doc |-> IF f \in DOMAIN upd THEN upd[f] ELSE doc[f]]

MlProcessedEventsNone(rid, updatedReport) == <<>>

\* the events of lines 515-521 (updatedReport: what findByIdAndUpdate
\* returned, NoDoc for null)
MlProcessedEvents(rid, updatedReport) ==
  <<Event(rid, "ML_PROCESSED", updatedReport)>>

MlWebhook(rid, c) ==
  /\ started < MaxRequests
  /\ started' = started + 1
  /\ NoCalls
  /\ UNCHANGED <<users, slots, queue, tasks, mlDisabled, notaries>>
  /\ IF c = NoBody \/ ~ValidObjectId(rid)
       \* a TypeError on classification.severity, or a CastError of the id
       THEN /\ out' = [Respond("mlWebhook", rid, "none", 500, "error")
                        EXCEPT !.body = c]
            /\ emitted' = <<>>
            /\ UNCHANGED reports
     ELSE IF ~Exists(rid)
       \* findByIdAndUpdate resolves to null
       THEN /\ UNCHANGED reports
            /\ emitted' = MlProcessedEvents(rid, NoDoc)
            /\ out' = [Respond("mlWebhook", rid, "none", 200, "ok")
                        EXCEPT !.body = c]
     ELSE /\ reports' = [reports EXCEPT ![rid] = ApplySet(@, UpdateData(c))]
          /\ emitted' = MlProcessedEvents(rid, ApplySet(reports[rid], UpdateData(c)))
          /\ out' = [Respond("mlWebhook", rid, "none", 200, "ok")
                      EXCEPT !.body = c]
  /\ sockets' = Deliver(emitted')

----------------------------------------------------------------------------
(* The realtime server: io.on('connection'), 'join-report', 'disconnect' *)

\* a step of a client: no request is answered and the store is not touched
Still ==
  /\ out' = NoOut
  /\ emitted' = <<>>
  /\ NoCalls
  /\ UNCHANGED <<reports, users, slots, started, queue, tasks, mlDisabled,
                 notaries>>

\* a client connects: a new socket, in no report's room
Connect(k) ==
  /\ ~sockets[k].open
  /\ sockets' = [sockets EXCEPT ![k] = OpenSocket]
  /\ Still

\* socket.on('join-report', reportId => socket.join(`report-${reportId}`))
JoinReport(k, rid) ==
  /\ sockets[k].open
  /\ sockets' = [sockets EXCEPT ![k].rooms = @ \cup {Topic(rid)}]
  /\ Still

\* the socket leaves its rooms and is gone
Disconnect(k) ==
  /\ sockets[k].open
  /\ sockets' = [sockets EXCEPT ![k] = ClosedSocket]
  /\ Still

----------------------------------------------------------------------------
(* The list queries. Each is one Report.find; the response is modelled by  *)
(* the set of report ids it lists (the requests ask for the first page,    *)
(* which holds every match of a store this small). hit is the set of       *)
(* reports the store's 2dsphere index matches for the request's point and  *)
(* radius, or for its box.                                                 *)

\* res.status(200).json({ ..., reports })
Listed(op, uid, ids) == [Respond(op, "none", uid, 200, "ok") EXCEPT !.list = ids]

\* a query changes nothing
Query ==
  /\ started < MaxRequests
  /\ started' = started + 1
  /\ emitted' = <<>>
  /\ NoCalls
  /\ UNCHANGED <<reports, users, slots, queue, tasks, mlDisabled, sockets,
                 notaries>>

\* { reportStatus: { $ne: 'DELETED' } }
NotDeleted == {r \in Created : reports[r].reportStatus # "DELETED"}

\* filter.reportStatus after `if (status) filter.reportStatus = status`
StatusFilter(status) ==
  IF status = Undefined THEN NotDeleted
  ELSE {r \in Created : reports[r].reportStatus = status}

\* a filter on a field that is applied only if the parameter is given
FieldFilter(field, value) ==
  IF value = Undefined THEN Created
  ELSE {r \in Created : reports[r][field] = value}

GetNearbyReports(hit, given) ==
  /\ Query
  /\ out' = IF ~given
            THEN Respond("getNearbyReports", "none", "none", 400, "coordinates_required")
            ELSE Listed("getNearbyReports", "none", NotDeleted \cap hit)

GetReportsInBounds(hit, given) ==
  /\ Query
  /\ out' = IF ~given
            THEN Respond("getReportsInBounds", "none", "none", 400, "box_required")
            ELSE Listed("getReportsInBounds", "none", NotDeleted \cap hit)

GetNearbyReportsByDepartment(hit, department) ==
  /\ Query
  /\ out' = IF department = Undefined
            THEN Respond("getNearbyReportsByDepartment", "none", "none", 400,
                         "department_required")
            ELSE Listed("getNearbyReportsByDepartment", "none",
                        NotDeleted \cap FieldFilter("department", department)
                          \cap hit)

GetUserReports(uid) ==
  /\ Query
  /\ out' = Listed("getUserReports", uid,
                 {r \in NotDeleted : reports[r].userId = uid})

GetAllReports(status, department) ==
  /\ Query
  /\ out' = Listed("getAllReports", "none",
                 StatusFilter(status) \cap FieldFilter("department", department))

GetAllReportsForMobile(status, department, severity) ==
  /\ Query
  /\ out' = Listed("getAllReportsForMobile", "none",
                 StatusFilter(status) \cap FieldFilter("department", department)
                   \cap FieldFilter("severity", severity))

GetUserReportsForMobile(uid) ==
  /\ Query
  /\ out' = Listed("getUserReportsForMobile", uid,
                 {r \in NotDeleted : reports[r].userId = uid})

\* adminController.getAllReports: Report.find()
AdminGetAllReports(admin) ==
  /\ Query
  /\ out' = Listed("adminGetAllReports", admin, Created)

\* adminController.getReportLocations: every report that has coordinates
GetReportLocations(admin) ==
  /\ Query
  /\ out' = Listed("getReportLocations", admin,
                 {r \in Created : reports[r].coordinates # <<>>})

----------------------------------------------------------------------------
Next ==
  \/ \E u \in Users : CreateReport(u)
  \/ \E s \in Slots, r \in ReqIds : AcknowledgeReportFind(s, r)
  \/ \E s \in Slots : AcknowledgeReportSave(s)
  \/ \E s \in Slots, r \in ReqIds : ResolveReportFind(s, r)
  \/ \E s \in Slots : ResolveReportSave(s, "ok")
  \/ \E s \in Slots, r \in ReqIds : DeleteReportFind(s, r)
  \/ \E s \in Slots : DeleteReportSave(s)
  \/ \E r \in ReqIds, a \in Admins : UpdateReportAcknowledge(r, a, "none", "ok")
  \/ \E s \in Slots, r \in ReqIds, u \in Users : UpvoteReportFind(s, r, u)
  \/ \E s \in Slots : UpvoteReportSave(s)
  \/ \E s \in Slots, r \in ReqIds, u \in Users : UpdateReportStatusResolveFind(s, r, u)
  \/ \E s \in Slots : UpdateReportStatusResolveSave(s, "none")
  \/ \E s \in Slots : UpdateReportStatusResolveFindUser(s)
  \/ \E s \in Slots : UpdateReportStatusResolveSaveUser(s, "none")

Spec == Init /\ [][Next]_vars

----------------------------------------------------------------------------
(* SpecML: the classification webhook next to the lifecycle handlers *)

\* two results of the classifier
RoadsPothole == Classification("HIGH", "Roads", "Pothole", Undefined, <<9, 8>>)
WaterMismatch == Classification("LOW", "Water", Undefined, "mismatch", <<5, 5>>)

Titles == {Undefined, "", "No title", "Pothole"}

Classifications ==
  {Classification("HIGH", "Roads", t, Undefined, <<9, 8>>) : t \in Titles}
    \cup {Classification("LOW", "Water", "Leak", "dup", <<5, 5>>)}

NextML ==
  \/ CreateReport("u1")
  \/ \E r \in ReqIds, c \in Classifications \cup {NoBody} : MlWebhook(r, c)
  \/ \E r \in ReportIds, a \in Admins : UpdateReportAcknowledge(r, a, "none", "ok")
  \/ \E s \in Slots, r \in ReportIds : UpvoteReportFind(s, r, "u2")
  \/ \E s \in Slots : UpvoteReportSave(s)

SpecML == Init /\ [][NextML]_vars

----------------------------------------------------------------------------
(* SpecQueue: report creation with its detached enqueue callback, with     *)
(* classification enabled or disabled                                      *)

InitQueue ==
  /\ reports = [r \in ReportIds |-> NoDoc]
  /\ users = [u \in Users |-> NewUser]
  /\ slots = [s \in Slots |-> IdleSlot]
  /\ started = 0
  /\ out = NoOut
  /\ emitted = <<>>
  /\ queue = <<>>
  /\ tasks = {}
  /\ mlDisabled \in BOOLEAN
  /\ Unconnected

QueueBodies ==
  {PlainBody,
   Body("Pothole", "Roads", Num(13), Num(78)),
   Body("Pothole", "Roads", Missing, Num(78)),
   Body("Pothole", "Roads", Num(13), Num(181))}

NextQueue ==
  \/ \E u \in Users, body \in QueueBodies, dbOk \in BOOLEAN :
       CreateReportRequest(u, body, dbOk)
  \/ \E r \in ReportIds, redisOk \in BOOLEAN : EnqueueTask(r, redisOk)
  \/ \E r \in ReqIds :
       MlWebhook(r, RoadsPothole)

SpecQueue == InitQueue /\ [][NextQueue]_vars

----------------------------------------------------------------------------
(* SpecCoords: report creation over a grid of coordinates, sent as JSON    *)
(* numbers, as form fields, or not at all                                  *)

Latitudes == {Missing, Num(-91), Num(-90), Num(0), Str(0), Num(90), Num(91)}

Longitudes ==
  {Missing, Num(-181), Num(-180), Num(0), Str(0), Num(180), Num(181)}

\* the request bodies sent: every pairing of the two
CoordBodies ==
  {Body(Undefined, Undefined, lat, lng) : lat \in Latitudes, lng \in Longitudes}

NextCoords ==
  \E body \in CoordBodies, dbOk \in BOOLEAN :
    CreateReportRequest("u1", body, dbOk)

SpecCoords == Init /\ [][NextCoords]_vars

----------------------------------------------------------------------------
(* SpecQuery: the list queries next to creation and deletion *)

StatusParams == {Undefined, "SUBMITTED", "DELETED"}

DepartmentParams == {Undefined, "Roads"}

SeverityParams == {Undefined, "MEDIUM"}

\* the request bodies of createReport: with and without a category
QueryBodies ==
  {Body(Undefined, c, PlainBody.latitude, PlainBody.longitude) :
     c \in DepartmentParams}

NextQuery ==
  \/ \E u \in Users, body \in QueryBodies : CreateReportRequest(u, body, TRUE)
  \/ \E s \in Slots, r \in ReportIds : DeleteReportFind(s, r)
  \/ \E s \in Slots : DeleteReportSave(s)
  \/ \E hit \in SUBSET ReportIds, given \in BOOLEAN : GetNearbyReports(hit, given)
  \/ \E hit \in SUBSET ReportIds, given \in BOOLEAN : GetReportsInBounds(hit, given)
  \/ \E hit \in SUBSET ReportIds, d \in DepartmentParams :
       GetNearbyReportsByDepartment(hit, d)
  \/ \E u \in Users : GetUserReports(u)
  \/ \E st \in StatusParams, d \in DepartmentParams : GetAllReports(st, d)
  \/ \E st \in StatusParams, d \in DepartmentParams, sv \in SeverityParams :
       GetAllReportsForMobile(st, d, sv)
  \/ \E u \in Users : GetUserReportsForMobile(u)
  \/ \E a \in Admins : AdminGetAllReports(a)
  \/ \E a \in Admins : GetReportLocations(a)

SpecQuery == Init /\ [][NextQuery]_vars

----------------------------------------------------------------------------
(* SpecLedger: the point awards of updateReportStatusResolve to users who  *)
(* have earned points before                                               *)

\* points a user holds from reports resolved earlier
EarnedBefore == {0, 170}

\* a stored user who earned n points through addPoints
UserWith(n) == [points |-> n, monthlyPoints |-> n, badge |-> BadgeOf(n)]

InitLedger ==
  /\ reports = [r \in ReportIds |-> NoDoc]
  /\ users \in [Users -> {UserWith(n) : n \in EarnedBefore}]
  /\ slots = [s \in Slots |-> IdleSlot]
  /\ started = 0
  /\ out = NoOut
  /\ emitted = <<>>
  /\ queue = <<>>
  /\ tasks = {}
  /\ mlDisabled = TRUE
  /\ Unconnected

NextLedger ==
  \/ \E u \in Users : CreateReport(u)
  \/ \E r \in ReportIds, a \in Admins : UpdateReportAcknowledge(r, a, "none", "ok")
  \/ \E s \in Slots, r \in ReportIds, u \in Users : UpvoteReportFind(s, r, u)
  \/ \E s \in Slots : UpvoteReportSave(s)
  \/ \E s \in Slots, r \in ReportIds, u \in Users :
       UpdateReportStatusResolveFind(s, r, u)
  \/ \E s \in Slots : UpdateReportStatusResolveSave(s, "none")
  \/ \E s \in Slots : UpdateReportStatusResolveFindUser(s)
  \/ \E s \in Slots : UpdateReportStatusResolveSaveUser(s, "none")

SpecLedger == InitLedger /\ [][NextLedger]_vars

----------------------------------------------------------------------------
(* SpecRace: the classifier's webhook next to upvotes, acknowledgements and *)
(* deletions in flight on the same reports, for users who hold points       *)

NextRace ==
  \/ CreateReport("u1")
  \/ \E r \in ReportIds :
       MlWebhook(r, RoadsPothole)
  \/ \E s \in Slots, r \in ReportIds : UpvoteReportFind(s, r, "u2")
  \/ \E s \in Slots : UpvoteReportSave(s)
  \/ \E s \in Slots, r \in ReportIds : AcknowledgeReportFind(s, r)
  \/ \E s \in Slots : AcknowledgeReportSave(s)
  \/ \E s \in Slots, r \in ReportIds : DeleteReportFind(s, r)
  \/ \E s \in Slots : DeleteReportSave(s)

SpecRace == InitLedger /\ [][NextRace]_vars

----------------------------------------------------------------------------
(* SpecFanout: clients that connect, join report rooms and disconnect      *)
(* while acknowledgements and classifications are published                *)

NextFanout ==
  \/ \E k \in Sockets : Connect(k)
  \/ \E k \in Sockets, r \in ReportIds : JoinReport(k, r)
  \/ \E k \in Sockets : Disconnect(k)
  \/ CreateReport("u1")
  \/ \E r \in ReportIds :
       MlWebhook(r, RoadsPothole)
  \/ \E r \in ReportIds, a \in Admins : UpdateReportAcknowledge(r, a, "none", "ok")

SpecFanout == Init /\ [][NextFanout]_vars

----------------------------------------------------------------------------
(* SpecSide: the handlers that call the notary and the push service, with  *)
(* every outcome of each call                                              *)

NextSide ==
  \/ CreateReport("u1")
  \/ \E r \in ReportIds, o \in Outcomes : NotaryCallback(r, o)
  \/ \E r \in ReportIds, a \in Admins, p \in PushOutcomes, o \in Outcomes :
       UpdateReportAcknowledge(r, a, p, o)
  \/ \E s \in Slots, r \in ReportIds : ResolveReportFind(s, r)
  \/ \E s \in Slots, o \in Outcomes : ResolveReportSave(s, o)
  \/ \E s \in Slots, r \in ReportIds :
       UpdateReportStatusResolveFind(s, r, "u1")
  \/ \E s \in Slots, p \in PushOutcomes : UpdateReportStatusResolveSave(s, p)
  \/ \E s \in Slots : UpdateReportStatusResolveFindUser(s)
  \/ \E s \in Slots, p \in PushOutcomes : UpdateReportStatusResolveSaveUser(s, p)

SpecSide == Init /\ [][NextSide]_vars

----------------------------------------------------------------------------
(* SpecShadow: every handler that writes a report, next to the webhook     *)
(* with two different classifications                                      *)

ShadowTitles == {"Pothole", "No title"}

\* the classifications the service posts for them
ShadowClassifications ==
  {Classification("HIGH", "Roads", t, Undefined, <<9, 8>>) : t \in ShadowTitles}

NextShadow ==
  \/ CreateReport("u1")
  \/ \E r \in ReportIds, c \in ShadowClassifications : MlWebhook(r, c)
  \/ \E r \in ReportIds :
       MlWebhook(r, WaterMismatch)
  \/ \E s \in Slots, r \in ReportIds : AcknowledgeReportFind(s, r)
  \/ \E s \in Slots : AcknowledgeReportSave(s)
  \/ \E r \in ReportIds, a \in Admins : UpdateReportAcknowledge(r, a, "none", "ok")
  \/ \E s \in Slots, r \in ReportIds : ResolveReportFind(s, r)
  \/ \E s \in Slots : ResolveReportSave(s, "ok")
  \/ \E s \in Slots, r \in ReportIds : DeleteReportFind(s, r)
  \/ \E s \in Slots : DeleteReportSave(s)
  \/ \E s \in Slots, r \in ReportIds : UpvoteReportFind(s, r, "u2")
  \/ \E s \in Slots : UpvoteReportSave(s)

SpecShadow == Init /\ [][NextShadow]_vars

----------------------------------------------------------------------------
(* SpecMonthly: addPoints and resetMonthlyPoints called on user documents  *)
(* in any order                                                            *)

\* the amounts the handlers award
Awards == {UpvoterAward, SubmitterAward}

\* points a user holds when the calls start, just below the Silver badge
HeldBefore == {0, 190}

InitMonthly ==
  /\ reports = [r \in ReportIds |-> NoDoc]
  /\ users \in [Users -> {UserWith(n) : n \in HeldBefore}]
  /\ slots = [s \in Slots |-> IdleSlot]
  /\ started = 0
  /\ out = NoOut
  /\ emitted = <<>>
  /\ queue = <<>>
  /\ tasks = {}
  /\ mlDisabled = TRUE
  /\ Unconnected

\* the call made by the step: the method, the user and the argument
Called(method, uid, n) ==
  [Respond(method, "none", uid, 0, "ok") EXCEPT !.body = [points |-> n]]

\* user.addPoints(n)
AddPointsCall(uid, n) ==
  /\ started < MaxRequests
  /\ started' = started + 1
  /\ users' = [users EXCEPT ![uid] = AddPoints(@, n)]
  /\ out' = Called("addPoints", uid, n)
  /\ Quiet
  /\ NoCalls
  /\ UNCHANGED <<reports, slots>>

ResetMonthlyPointsKeepsNothing(u) ==
  [u EXCEPT !.monthlyPoints = 0, !.points = 0]

\* this.monthlyPoints = 0 (the users of the model carry no dates:
\* lastMonthlyReset is left out)
ResetMonthlyPoints(u) == [u EXCEPT !.monthlyPoints = 0]

\* user.resetMonthlyPoints()
ResetMonthlyPointsCall(uid) ==
  /\ started < MaxRequests
  /\ started' = started + 1
  /\ users' = [users EXCEPT ![uid] = ResetMonthlyPoints(@)]
  /\ out' = Called("resetMonthlyPoints", uid, 0)
  /\ Quiet
  /\ NoCalls
  /\ UNCHANGED <<reports, slots>>

NextMonthly ==
  \/ \E u \in Users, n \in Awards : AddPointsCall(u, n)
  \/ \E u \in Users : ResetMonthlyPointsCall(u)

SpecMonthly == InitMonthly /\ [][NextMonthly]_vars

----------------------------------------------------------------------------
(* SpecAward: the owner resolves two acknowledged reports, upvoted or not; *)
(* SpecAwardFail: the same, with user reads and writes that can fail       *)

\* a report of u1, possibly upvoted by u2, that a1 has acknowledged
AcknowledgedReport(upvoted) ==
  LET doc == AcknowledgeUpdate(NewReport("u1"), "a1") IN
    IF upvoted
      THEN SaveDoc(doc, ToggleLocal(doc, "u2"), ToggleMods(doc, "u2"), "u2")
      ELSE doc

InitAward ==
  /\ reports \in [ReportIds -> {AcknowledgedReport(b) : b \in BOOLEAN}]
  /\ users = [u \in Users |-> NewUser]
  /\ slots = [s \in Slots |-> IdleSlot]
  /\ started = 0
  /\ out = NoOut
  /\ emitted = <<>>
  /\ queue = <<>>
  /\ tasks = {}
  /\ mlDisabled = TRUE
  /\ Unconnected

NextAward ==
  \/ \E s \in Slots, r \in ReportIds :
       UpdateReportStatusResolveFind(s, r, "u1")
  \/ \E s \in Slots : UpdateReportStatusResolveSave(s, "none")
  \/ \E s \in Slots : UpdateReportStatusResolveFindUser(s)
  \/ \E s \in Slots : UpdateReportStatusResolveSaveUser(s, "none")

SpecAward == InitAward /\ [][NextAward]_vars

NextAwardFail ==
  \/ NextAward
  \/ \E s \in Slots : UpdateReportStatusResolveUserFails(s)

SpecAwardFail == InitAward /\ [][NextAwardFail]_vars

----------------------------------------------------------------------------
(* SpecBadge: updateBadge called on user documents whose points lie at and *)
(* next to the thresholds, whatever badge they carry                       *)

PointSamples == {0, 199, 200, 499, 500, 999, 1000}

Badges == {"Bronze", "Silver", "Gold", "Platinum"}

InitBadge ==
  /\ reports = [r \in ReportIds |-> NoDoc]
  /\ users \in [Users -> {[points |-> p, monthlyPoints |-> p, badge |-> b] :
                           p \in PointSamples, b \in Badges}]
  /\ slots = [s \in Slots |-> IdleSlot]
  /\ started = 0
  /\ out = NoOut
  /\ emitted = <<>>
  /\ queue = <<>>
  /\ tasks = {}
  /\ mlDisabled = TRUE
  /\ Unconnected

\* user.updateBadge(); out holds the value returned
UpdateBadgeCall(uid) ==
  /\ users' = [users EXCEPT ![uid] = UpdateBadge(@).user]
  /\ out' = Respond("updateBadge", "none", uid, 0,
                    IF UpdateBadge(users[uid]).changed THEN "true" ELSE "false")
  /\ Quiet
  /\ NoCalls
  /\ UNCHANGED <<reports, slots, started>>

NextBadge == \E u \in Users : UpdateBadgeCall(u)

SpecBadge == InitBadge /\ [][NextBadge]_vars

----------------------------------------------------------------------------
(* Properties *)

ResolveOps == {"resolveReport", "updateReportStatusResolve"}
AckOps == {"acknowledgeReport", "updateReportAcknowledge"}

\* slot s sends its response in this step
Responds(s) == slots[s].pc # "idle" /\ slots'[s].pc = "idle"

\* slot s takes in a request in this step and goes on past its guards
Admits(s, op) == slots[s].pc = "idle" /\ slots'[s].op = op

\* what one resolution award per report can add to a user's points at most:
\* 20 for each report the user submitted and 5 for each report there is
OneAwardEach(u) ==
  LET sum[S \in SUBSET ReportIds] ==
        IF S = {} THEN 0
        ELSE LET r == CHOOSE x \in S : TRUE
             IN (IF reports[r].userId = u THEN 20 ELSE 0) + 5 + sum[S \ {r}]
  IN sum[Created]

\* C1: the resolution award is applied to the users' points at most once for
\* a report, whatever sequence or interleaving of requests it goes through:
\* no user ever holds more points than one award per report adds up to.
AwardAtMostOnce == \A u \in Users : users[u].points <= OneAwardEach(u)

\* C2: a resolve request that succeeds, through either call site, has raised
\* the submitter's points by 20 and each upvoter's by 5 over what they were
\* when the request read the report, and nobody else's.
ClaimedAward(doc, u) ==
  (IF doc.userId = u THEN 20 ELSE 0)
    + (IF u \in Range(doc.upvotedBy) THEN 5 ELSE 0)

ResolveAwardsPoints ==
  [][\A s \in Slots :
       (Responds(s) /\ slots[s].op \in ResolveOps /\ out'.code = 200)
         => \A u \in Users :
              users'[u].points = slots[s].was[u] + ClaimedAward(slots[s].report, u)
    ]_vars

\* C3: reportStatus moves only along SUBMITTED->ACKNOWLEDGED,
\* SUBMITTED->RESOLVED, ACKNOWLEDGED->RESOLVED and (non-DELETED)->DELETED.
LegalEdge(a, b) ==
  \/ a = b
  \/ a = "none" /\ b = "SUBMITTED"
  \/ a = "SUBMITTED" /\ b \in {"ACKNOWLEDGED", "RESOLVED"}
  \/ a = "ACKNOWLEDGED" /\ b = "RESOLVED"
  \/ a \in {"SUBMITTED", "ACKNOWLEDGED", "RESOLVED"} /\ b = "DELETED"

OnlyLegalEdges ==
  [][\A r \in ReportIds :
       LegalEdge(reports[r].reportStatus, reports'[r].reportStatus)]_vars

\* C4: an acknowledge request, on either route, succeeds only on a report
\* whose status is SUBMITTED, and one that fails leaves the reports alone.
AcknowledgeOnlySubmitted ==
  [][out'.op \in AckOps =>
       IF out'.code = 200
         THEN reports[out'.rid].reportStatus = "SUBMITTED"
         ELSE UNCHANGED reports
    ]_vars

\* C5: a resolve request whose guard fails is rejected (resolveReport: status
\* not SUBMITTED or ACKNOWLEDGED -> 400; updateReportStatusResolve: actor not
\* the owner -> 403, else status not ACKNOWLEDGED -> 400), and a rejected
\* resolve request leaves every report and every user's points as they were.
ResolveRejectedUnchanged ==
  [][/\ (out'.op \in ResolveOps /\ out'.code \in {400, 403})
          => UNCHANGED <<reports, users>>
     /\ \A s \in Slots :
          /\ Admits(s, "resolveReport")
               => reports[slots'[s].rid].reportStatus \in {"SUBMITTED", "ACKNOWLEDGED"}
          /\ Admits(s, "updateReportStatusResolve")
               => /\ reports[slots'[s].rid].userId = slots'[s].uid
                  /\ reports[slots'[s].rid].reportStatus = "ACKNOWLEDGED"
     /\ (out'.op = "resolveReport" /\ out'.code = 400)
          => reports[out'.rid].reportStatus \notin {"SUBMITTED", "ACKNOWLEDGED"}
     /\ (out'.op = "updateReportStatusResolve" /\ out'.code = 403)
          => reports[out'.rid].userId # out'.uid
     /\ (out'.op = "updateReportStatusResolve" /\ out'.code = 400)
          => /\ reports[out'.rid].userId = out'.uid
             /\ reports[out'.rid].reportStatus # "ACKNOWLEDGED"
    ]_vars

\* a resolve request by a user who does not own the report was just refused,
\* after points had been awarded
ResolveRejectedSeen ==
  /\ out.op = "updateReportStatusResolve" /\ out.code = 403
  /\ \E u \in Users : users[u].points > 0

\* C6: a toggle completed by a user who is not in upvotedBy raises upvotes by
\* exactly one and puts the user in upvotedBy, whatever other toggles ran
\* between its read and its write (so k such toggles raise it by k).
NoLostUpvote ==
  [][\A s \in Slots :
       (/\ Responds(s) /\ slots[s].op = "upvoteReport" /\ out'.code = 200
        /\ slots[s].uid \notin Range(reports[slots[s].rid].upvotedBy))
         => /\ reports'[slots[s].rid].upvotes = reports[slots[s].rid].upvotes + 1
            /\ slots[s].uid \in Range(reports'[slots[s].rid].upvotedBy)
    ]_vars

\* C7: upvotedBy holds each user at most once and upvotes is its size.
UpvotesMatchUpvotedBy ==
  \A r \in ReportIds :
    /\ Cardinality(Range(reports[r].upvotedBy)) = Len(reports[r].upvotedBy)
    /\ reports[r].upvotes = Len(reports[r].upvotedBy)

\* C8: upvotes is never negative.
UpvotesNonNegative == \A r \in ReportIds : reports[r].upvotes >= 0

\* C9: two toggles by one user, run one after the other with nothing in
\* between, bring upvotes and the set of upvoters of a non-deleted report back
\* to what they were; and a toggle that runs with nothing between its read and
\* its write stores the toggled document and returns the count it stored.
SerialToggle(doc, u) ==
  SaveDoc(doc, ToggleLocal(doc, u), ToggleMods(doc, u), u)

ToggleInvolution ==
  /\ [](\A r \in ReportIds, u \in Users :
          (Exists(r) /\ reports[r].reportStatus # "DELETED")
            => LET once == SerialToggle(reports[r], u)
                   twice == SerialToggle(once, u)
               IN /\ (u \in Range(once.upvotedBy)) # (u \in Range(reports[r].upvotedBy))
                  /\ once.upvotes # reports[r].upvotes
                  /\ twice.upvotes = reports[r].upvotes
                  /\ Range(twice.upvotedBy) = Range(reports[r].upvotedBy))
  /\ [][\A s \in Slots :
          (Responds(s) /\ slots[s].op = "upvoteReport")
            => /\ out'.code = 200 => out'.upvotes = reports'[slots[s].rid].upvotes
               /\ slots[s].report = ToggleLocal(reports[slots[s].rid], slots[s].uid)
                    => /\ out'.code = 200
                       /\ reports'[slots[s].rid]
                            = SerialToggle(reports[slots[s].rid], slots[s].uid)
       ]_vars

\* a user has just taken back the upvote given before: the report is back at
\* no upvotes after two writes of upvotedBy
ToggledTwice ==
  /\ out.op = "upvoteReport" /\ out.code = 200 /\ out.upvotes = 0
  /\ reports[out.rid].upvotedBy = <<>>
  /\ reports[out.rid].upvotes = 0
  /\ reports[out.rid].v = 2

\* C10: upvoteReport answers 404 for a report that does not exist and 400 for
\* a DELETED one, changing nothing; and the upvotes and upvotedBy of a DELETED
\* report never change.
DeletedUpvotesFrozen ==
  [][/\ (out'.op = "upvoteReport" /\ out'.code \in {400, 404})
          => UNCHANGED reports
     /\ \A s \in Slots :
          Admits(s, "upvoteReport")
            => /\ Exists(slots'[s].rid)
               /\ reports[slots'[s].rid].reportStatus # "DELETED"
     /\ \A r \in ReportIds :
          reports[r].reportStatus = "DELETED"
            => /\ reports'[r].upvotes = reports[r].upvotes
               /\ reports'[r].upvotedBy = reports[r].upvotedBy
    ]_vars

----------------------------------------------------------------------------
(* The classification webhook (checked under SpecML) *)

\* the last step answered a webhook that found its report
MlApplied ==
  /\ out.op = "mlWebhook"
  /\ out.code = 200
  /\ Exists(out.rid)

\* C11: the webhook is idempotent: a second application of the payload it
\* has just applied changes nothing, a classification applied twice to any
\* stored report gives what one application gives, and no webhook changes a
\* user's points or badge
WebhookIdempotent ==
  /\ [](\A r \in Created, c \in Classifications :
          LET once == ApplySet(reports[r], UpdateData(c))
          IN  ApplySet(once, UpdateData(c)) = once)
  /\ [][out'.op = "mlWebhook" =>
          /\ users' = users
          /\ MlApplied' =>
               /\ reports'[out'.rid]
                    = ApplySet(reports[out'.rid], UpdateData(out'.body))
               /\ ApplySet(reports'[out'.rid], UpdateData(out'.body))
                    = reports'[out'.rid]]_vars

\* a classification with a title has been applied to an upvoted report
WebhookAppliedTitle ==
  /\ MlApplied
  /\ reports[out.rid].mlClassified
  /\ reports[out.rid].mlTitle = out.body.title
  /\ reports[out.rid].upvotes > 0

\* C12: a webhook for a report id that identifies no report is answered with
\* an error, changes no report and emits no event
WebhookUnknownReportNotFound ==
  [][(out'.op = "mlWebhook" /\ out'.body # NoBody /\ ~Exists(out'.rid)) =>
       /\ out'.code >= 400
       /\ reports' = reports
       /\ emitted' = <<>>]_vars

\* the fields of a report no classification may touch
LifecycleFields ==
  {"reportStatus", "upvotes", "upvotedBy", "userId", "isAcknowledged",
   "acknowledgedAt", "acknowledgedBy", "coordinates", "v"}

\* the fields a classification may write
ShadowFields ==
  {"mlClassified", "mlSeverity", "mlDepartment", "mlConfidence", "mlTitle",
   "mlConflicts", "department", "severity", "title"}

\* C13: a webhook step changes no field of any report other than the
\* classification fields of the report it names
WebhookFramesLifecycle ==
  [][out'.op = "mlWebhook" =>
       \A r \in ReportIds :
         /\ \A f \in LifecycleFields : reports'[r][f] = reports[r][f]
         /\ \A f \in DOMAIN reports[r] :
              reports'[r][f] # reports[r][f] =>
                r = out'.rid /\ f \in ShadowFields]_vars

\* a classification has been applied to an acknowledged, upvoted report
WebhookOnAcknowledgedUpvoted ==
  /\ MlApplied
  /\ reports[out.rid].mlClassified
  /\ reports[out.rid].reportStatus = "ACKNOWLEDGED"
  /\ reports[out.rid].upvotes > 0
  /\ reports[out.rid].acknowledgedBy \in Admins

\* C14: an applied classification overwrites department and severity, and
\* title and mlTitle exactly when its title is present, non-empty and not
\* 'No title'
WebhookOverwrites ==
  [][MlApplied' =>
       LET c == out'.body
           old == reports[out'.rid]
           new == reports'[out'.rid]
       IN  /\ new.department = c.department
           /\ new.severity = c.severity
           /\ IF c.title \notin {Undefined, "", "No title"}
                THEN new.title = c.title /\ new.mlTitle = c.title
                ELSE new.title = old.title /\ new.mlTitle = old.mlTitle]_vars

\* the sentinel title was withheld from a report that carried a classified
\* title, while department and severity were overwritten
WebhookWithheldSentinel ==
  /\ MlApplied
  /\ out.body.title = "No title"
  /\ reports[out.rid].title = "Leak"
  /\ reports[out.rid].mlTitle = "Leak"
  /\ reports[out.rid].department = "Roads"
  /\ reports[out.rid].severity = "HIGH"

\* C15: an applied classification emits exactly one ML_PROCESSED event, on
\* the topic of its report, carrying the report as updated
WebhookEmitsOnce ==
  [][MlApplied' =>
       /\ Len(emitted') = 1
       /\ emitted'[1].topic = <<"report", out'.rid>>
       /\ emitted'[1].name = "report-status-update"
       /\ emitted'[1].status = "ML_PROCESSED"
       /\ emitted'[1].updatedReport = reports'[out'.rid]
       /\ reports'[out'.rid].mlClassified]_vars

\* the second report's classification was announced on its own topic
WebhookAnnounced ==
  /\ MlApplied
  /\ out.rid = "r2"
  /\ emitted = <<Event("r2", "ML_PROCESSED", reports["r2"])>>
  /\ reports["r1"] # NoDoc
  /\ ~reports["r1"].mlClassified

----------------------------------------------------------------------------
(* The classification queue (checked under SpecQueue) *)

\* the jobs of the queue that carry a report id
JobsFor(rid) == {i \in 1..Len(queue) : queue[i].reportId = rid}

\* the enqueue callbacks of a report id that have not run yet
TasksFor(rid) == {job \in tasks : job.reportId = rid}

\* the last step answered a creation with 201
Created201 == out.op = "createReport" /\ out.code = 201

\* the last step ran an enqueue callback
Enqueued(result) == out.op = "queueClassificationJob" /\ out.msg = result

\* C16 as stated: with classification enabled, a created report whose
\* enqueue callback has run has exactly one job in the queue
CreatedQueuedOnce ==
  \A r \in Created :
    (~mlDisabled /\ TasksFor(r) = {}) => Cardinality(JobsFor(r)) = 1

\* C16: a report has at most one job, queued or about to be; jobs exist only
\* for created reports and only with classification enabled; a successful
\* creation schedules its one job exactly when classification is enabled, a
\* failed creation schedules none; the callback queues its job exactly when
\* the push succeeds
QueuedAtMostOnce ==
  /\ [](\A r \in ReqIds :
          /\ Cardinality(JobsFor(r)) + Cardinality(TasksFor(r)) <= 1
          /\ (JobsFor(r) # {} \/ TasksFor(r) # {}) =>
               r \in ReportIds /\ reports[r] # NoDoc /\ ~mlDisabled)
  /\ [][/\ Created201' =>
             /\ queue' = queue
             /\ tasks' = IF mlDisabled THEN tasks
                         ELSE tasks \cup {[reportId |-> out'.rid,
                                           title |-> reports'[out'.rid].title]}
        /\ (out'.op = "createReport" /\ out'.code # 201) =>
             queue' = queue /\ tasks' = tasks /\ reports' = reports
        /\ Enqueued("success")' =>
             /\ Len(queue') = Len(queue) + 1
             /\ queue'[1].reportId = out'.rid
             /\ queue'[1] \in tasks
             /\ tasks' = tasks \ {queue'[1]}
        /\ Enqueued("failure")' =>
             queue' = queue /\ Cardinality(tasks') = Cardinality(tasks) - 1]_vars

\* with classification enabled, the first report has its job in the queue
\* and the second report's push failed
QueuedOneDroppedOne ==
  /\ ~mlDisabled
  /\ Enqueued("failure")
  /\ out.rid = "r2"
  /\ Cardinality(JobsFor("r1")) = 1
  /\ JobsFor("r2") = {}
  /\ tasks = {}

\* C17: a valid creation is answered 201 unless the store rejects it, with
\* the report stored as submitted and unclassified; a failed enqueue changes
\* neither the reports nor the queue; only a webhook step changes a report's
\* mlClassified
QueueFailureHarmless ==
  [][/\ (out'.op = "createReport" /\ out'.msg # "database_error"
           /\ ~Falsy(out'.body.latitude) /\ ~Falsy(out'.body.longitude)
           /\ ~OutOfRange(out'.body)) =>
          /\ out'.code = 201
          /\ reports[out'.rid] = NoDoc
          /\ reports'[out'.rid].reportStatus = "SUBMITTED"
          /\ reports'[out'.rid].mlClassified = FALSE
          /\ reports'[out'.rid].userId = out'.uid
     /\ Enqueued("failure")' => reports' = reports /\ queue' = queue
     /\ \A r \in ReportIds :
          reports'[r].mlClassified # reports[r].mlClassified =>
            out'.op = "mlWebhook" /\ out'.rid = r]_vars

\* the report was created with 201 and its push has just failed: it is
\* stored, submitted, unclassified, and nothing is queued
CreatedThoughQueueFailed ==
  /\ Enqueued("failure")
  /\ out.rid = "r1"
  /\ reports["r1"].reportStatus = "SUBMITTED"
  /\ ~reports["r1"].mlClassified
  /\ queue = <<>>
  /\ tasks = {}

----------------------------------------------------------------------------
(* Coordinates (checked under SpecCoords) *)

\* the request carried both coordinates and the store did not fail
SentCoordinates(o) ==
  /\ o.op = "createReport"
  /\ o.msg # "database_error"
  /\ o.body.latitude.kind # "missing"
  /\ o.body.longitude.kind # "missing"

\* C18: a creation with lat in [-90,90] and lng in [-180,180] is accepted and
\* stored as [lng, lat]; one with lat or lng outside is rejected and stores
\* nothing
CoordinatesValidated ==
  [][SentCoordinates(out') =>
       LET lat == out'.body.latitude.val
           lng == out'.body.longitude.val
       IN  IF -90 <= lat /\ lat <= 90 /\ -180 <= lng /\ lng <= 180
             THEN /\ out'.code = 201
                  /\ reports'[out'.rid].coordinates = <<lng, lat>>
             ELSE /\ out'.code = 400
                  /\ reports' = reports]_vars

----------------------------------------------------------------------------
(* The list queries (checked under SpecQuery) *)

\* C19: no list a query returns holds a report whose status is DELETED, and
\* a deleted report stays in the store
DeletedNeverListed ==
  /\ \A r \in out.list : reports[r].reportStatus # "DELETED"
  /\ \A r \in ReportIds :
       (out.op = "deleteReport" /\ out.code = 200 /\ out.rid = r) =>
         reports[r].reportStatus = "DELETED"

----------------------------------------------------------------------------
(* Badges (checked under SpecLedger) *)

\* C20: every stored user's badge is the highest threshold its stored
\* points satisfy
BadgeMatchesPoints ==
  \A u \in Users :
    users[u].badge =
      IF users[u].points >= 1000 THEN "Platinum"
      ELSE IF users[u].points >= 500 THEN "Gold"
      ELSE IF users[u].points >= 200 THEN "Silver"
      ELSE "Bronze"

----------------------------------------------------------------------------
(* updateBadge (checked under SpecBadge) *)

\* the order of the badges
Rank(badge) ==
  CASE badge = "Bronze" -> 0 [] badge = "Silver" -> 1
    [] badge = "Gold" -> 2 [] badge = "Platinum" -> 3

\* C21: the badge is a monotone step function of the points with steps at
\* 200, 500 and 1000, and updateBadge returns true exactly when it changed
\* the badge of the document
BadgeStepFunction ==
  /\ [](/\ BadgeOf(0) = "Bronze" /\ BadgeOf(199) = "Bronze"
        /\ BadgeOf(200) = "Silver" /\ BadgeOf(499) = "Silver"
        /\ BadgeOf(500) = "Gold" /\ BadgeOf(999) = "Gold"
        /\ BadgeOf(1000) = "Platinum"
        /\ \A p, q \in PointSamples :
             p <= q => Rank(BadgeOf(p)) <= Rank(BadgeOf(q)))
  /\ [][out'.op = "updateBadge" =>
          LET old == users[out'.uid]
              new == users'[out'.uid]
          IN  /\ new.points = old.points
              /\ new.monthlyPoints = old.monthlyPoints
              /\ new.badge = IF old.points >= 1000 THEN "Platinum"
                             ELSE IF old.points >= 500 THEN "Gold"
                             ELSE IF old.points >= 200 THEN "Silver"
                             ELSE "Bronze"
              /\ (out'.msg = "true") <=> (new.badge # old.badge)]_vars

\* updateBadge has just raised a user at exactly 200 points to Silver, and
\* the other user at 999 points carries Gold
BadgeRaisedAtThreshold ==
  /\ out.op = "updateBadge"
  /\ out.msg = "true"
  /\ users[out.uid].points = 200
  /\ users[out.uid].badge = "Silver"
  /\ \E u \in Users \ {out.uid} :
       users[u].points = 999 /\ users[u].badge = "Gold"

----------------------------------------------------------------------------
(* Status transitions and their announcements (checked under Spec) *)

\* C22: every step that stores a change of a report's status to ACKNOWLEDGED
\* or RESOLVED emits a report-status-update event on that report's topic
TransitionsPublished ==
  [][\A r \in ReportIds :
       (/\ reports'[r].reportStatus # reports[r].reportStatus
        /\ reports'[r].reportStatus \in {"ACKNOWLEDGED", "RESOLVED"}) =>
         \E i \in 1..Len(emitted') :
           /\ emitted'[i].topic = <<"report", r>>
           /\ emitted'[i].name = "report-status-update"]_vars

\* the guard a transition handler tests on the status it read
GuardOf(op, status) ==
  CASE op = "acknowledgeReport" -> status = "SUBMITTED"
    [] op = "resolveReport" -> status \in {"SUBMITTED", "ACKNOWLEDGED"}
    [] op = "updateReportStatusResolve" -> status = "ACKNOWLEDGED"
    [] OTHER -> TRUE

\* the request in slot s writes its transition in this step
Commits(s) ==
  /\ slots[s].pc \in {"save", "saveReport"}
  /\ slots[s].op \in {"acknowledgeReport", "resolveReport", "deleteReport",
                      "updateReportStatusResolve"}
  /\ slots'[s] # slots[s]

\* C26: transitions on one report are serialized: a transition that another
\* request's write has overtaken changes the stored status only if its
\* handler accepts the status now stored, as it would in the serial order of
\* the two writes (so a resolve never turns a report RESOLVED that a delete
\* has already marked DELETED)
TransitionsSerialized ==
  [][\A s \in Slots :
       (/\ Commits(s)
        /\ reports'[slots[s].rid].reportStatus
             # reports[slots[s].rid].reportStatus) =>
         GuardOf(slots[s].op, reports[slots[s].rid].reportStatus)]_vars

\* C29: a report in status ACKNOWLEDGED has isAcknowledged set and
\* acknowledgedAt and acknowledgedBy stamped by an admin; a report still in
\* status SUBMITTED that no admin stamped has isAcknowledged false
AcknowledgedStamped ==
  \A r \in Created :
    /\ reports[r].reportStatus = "ACKNOWLEDGED" =>
         /\ reports[r].isAcknowledged
         /\ reports[r].acknowledgedAt
         /\ reports[r].acknowledgedBy \in Admins
    /\ reports[r].acknowledgedBy \notin Admins => ~reports[r].isAcknowledged

----------------------------------------------------------------------------
\* C25: a report the store accepts starts SUBMITTED, unclassified, with no
\* upvote and no upvoter, owned by the caller, and titled 'Processing...'
\* when the body carried no title; a webhook that applies severity HIGH and
\* department Roads to a stored report sets both and mlClassified and leaves
\* its status as it was
CreatedThenClassified ==
  [][\A r \in ReportIds :
       /\ (reports[r] = NoDoc /\ reports'[r] # NoDoc) =>
            /\ out'.op = "createReport" /\ out'.code = 201 /\ out'.rid = r
            /\ reports'[r].reportStatus = "SUBMITTED"
            /\ ~reports'[r].mlClassified
            /\ reports'[r].upvotes = 0
            /\ reports'[r].upvotedBy = <<>>
            /\ reports'[r].userId = out'.uid
            /\ out'.body.title = Undefined => reports'[r].title = "Processing..."
            /\ out'.body.title # Undefined => reports'[r].title = out'.body.title
       /\ (/\ reports[r] # NoDoc
           /\ out'.op = "mlWebhook" /\ out'.code = 200 /\ out'.rid = r
           /\ out'.body.severity = "HIGH" /\ out'.body.department = "Roads") =>
            /\ reports'[r].severity = "HIGH"
            /\ reports'[r].department = "Roads"
            /\ reports'[r].mlClassified
            /\ reports'[r].reportStatus = reports[r].reportStatus]_vars

\* a stored report has been classified HIGH / Roads by the webhook and is
\* still SUBMITTED, next to one that still carries the placeholder
ClassifiedStillSubmitted ==
  /\ MlApplied
  /\ reports[out.rid].severity = "HIGH"
  /\ reports[out.rid].department = "Roads"
  /\ reports[out.rid].mlClassified
  /\ reports[out.rid].reportStatus = "SUBMITTED"
  /\ reports[out.rid].userId \in Users
  /\ \E r \in Created :
       /\ reports[r].title = "Processing..."
       /\ ~reports[r].mlClassified
       /\ reports[r].department = "Processing"

----------------------------------------------------------------------------
\* the request in slot s answers in this step after its report.save()
Saves(s) ==
  /\ slots[s].pc = "save"
  /\ slots'[s] # slots[s]
  /\ out'.code = 200

\* C27: a webhook and a status transition or upvote in flight on the same
\* report lose neither write: a webhook step sets the classification and
\* leaves status, upvotes and upvotedBy as stored, and a save of the other
\* request writes its status or its count and leaves every classification
\* field as stored, also when its document was read before the webhook
NeitherWriteLost ==
  [][/\ out'.op = "mlWebhook" =>
          \A r \in ReportIds, f \in LifecycleFields :
            reports'[r][f] = reports[r][f]
     /\ MlApplied' =>
          /\ reports'[out'.rid].mlClassified
          /\ reports'[out'.rid].severity = out'.body.severity
          /\ reports'[out'.rid].department = out'.body.department
     /\ out'.op # "mlWebhook" =>
          \A r \in Created, f \in ShadowFields : reports'[r][f] = reports[r][f]
     /\ \A s \in Slots :
          Saves(s) =>
            LET q == slots[s] IN
              /\ "reportStatus" \in q.mods =>
                   reports'[q.rid].reportStatus = q.report.reportStatus
              /\ "upvotes" \in q.mods =>
                   reports'[q.rid].upvotes = q.report.upvotes
              /\ "upvotedBy.$push" \in q.mods =>
                   reports'[q.rid].upvotedBy = Append(reports[q.rid].upvotedBy, q.uid)
              /\ "upvotedBy.$set" \in q.mods =>
                   reports'[q.rid].upvotedBy = q.report.upvotedBy]_vars

\* the webhook has just classified a report that an upvote and a status
\* transition, both of which read it unclassified, are still to save
WebhookBetweenFindAndSave ==
  /\ MlApplied
  /\ reports[out.rid].mlClassified
  /\ \E s, t \in Slots :
       /\ slots[s].pc = "save" /\ slots[s].op = "upvoteReport"
       /\ slots[t].pc = "save" /\ slots[t].op \in {"acknowledgeReport", "deleteReport"}
       /\ slots[s].rid = out.rid /\ slots[t].rid = out.rid
       /\ ~slots[s].report.mlClassified /\ ~slots[t].report.mlClassified
       /\ slots[t].mods # {}

\* C30: a deleteReport that answers 200 leaves the stored report DELETED,
\* whatever its status was, and changes nothing else: every other field of
\* it, every other report and every user stay as they are, and a delete
\* that finds no report writes nothing
DeleteOnlyStatus ==
  [][/\ \A s \in Slots :
          (/\ slots[s].op = "deleteReport" /\ slots[s].pc = "save"
           /\ slots'[s] # slots[s]) =>
            /\ out' = Respond("deleteReport", slots[s].rid, "none", 200, "ok")
            /\ reports' = [reports EXCEPT ![slots[s].rid].reportStatus = "DELETED"]
            /\ reports'[slots[s].rid] # NoDoc
            /\ users' = users
     /\ (out'.op = "deleteReport" /\ out'.code # 200) =>
          reports' = reports /\ users' = users
     /\ \A s \in Slots :
          (slots[s].pc = "idle" /\ slots'[s].op = "deleteReport") =>
            reports' = reports /\ users' = users]_vars

----------------------------------------------------------------------------
\* the events socket k holds after the step beyond those it held before
Fresh(k) ==
  SubSeq(sockets'[k].received, Len(sockets[k].received) + 1,
         Len(sockets'[k].received))

\* a is made of entries of b, each taken at most once, in b's order
Subsequence(a, b) ==
  \E f \in [1..Len(a) -> 1..Len(b)] :
    /\ \A i \in 1..Len(a) : a[i] = b[f[i]]
    /\ \A i, j \in 1..Len(a) : i < j => f[i] < f[j]

\* C23: fanout is per topic and without replay: what a connected socket
\* receives in a step are events this step emits, each at most once and in
\* the order of the emits, all of them for rooms the socket had joined
\* before the step; what it received earlier stays as it is, in order; and a
\* socket that joins or connects receives nothing that was emitted before
FanoutPerTopic ==
  [][\A k \in Sockets :
       /\ (sockets[k].open /\ sockets'[k].open) =>
            /\ Len(sockets'[k].received) >= Len(sockets[k].received)
            /\ SubSeq(sockets'[k].received, 1, Len(sockets[k].received))
                 = sockets[k].received
            /\ Subsequence(Fresh(k), emitted')
            /\ \A i \in 1..Len(Fresh(k)) :
                 Fresh(k)[i].topic \in sockets[k].rooms
       /\ ~sockets[k].open => sockets'[k].received = <<>>]_vars

\* k1, in the room of r1 only, has received r1's acknowledgement and then
\* its classification and nothing of r2, which was acknowledged as well; k2
\* joined r1's room after the acknowledgement and holds the classification
\* only
LateJoinerMissedFirst ==
  /\ sockets["k1"].open /\ sockets["k2"].open
  /\ sockets["k1"].rooms = {Topic("r1")}
  /\ Len(sockets["k1"].received) = 2
  /\ sockets["k1"].received[1].status = "ACKNOWLEDGED"
  /\ sockets["k1"].received[2].status = "ML_PROCESSED"
  /\ \A i \in 1..2 : sockets["k1"].received[i].reportId = "r1"
  /\ reports["r2"].reportStatus = "ACKNOWLEDGED"
  /\ Topic("r1") \in sockets["k2"].rooms
  /\ Len(sockets["k2"].received) = 1
  /\ sockets["k2"].received[1].status = "ML_PROCESSED"

----------------------------------------------------------------------------
\* the step made side-channel calls and every one of them answered
Answered == calls' # <<>> /\ ~Hung(calls')

\* C24: the notary and push calls are isolated from the transition and from
\* each other: createReport answers before its notary call is made and the
\* call changes nothing; whenever the calls of an acknowledge or a resolve
\* answer, with success or with failure, the response is the 200 and the
\* store holds what the handler wrote before them; and the acknowledge
\* makes its notary call whatever its push call did
SideChannelsIsolated ==
  [][/\ out'.op = "createReport" => calls' = <<>>
     /\ Answered =>
          LET c == calls'[1] IN
            CASE c.op = "createReport" ->
                   reports' = reports /\ users' = users /\ out' = NoOut
              [] c.op = "updateReportAcknowledge" ->
                   /\ out' = Respond(c.op, c.rid, out'.uid, 200, "ok")
                   /\ out'.uid \in Admins
                   /\ reports' = [reports EXCEPT
                                    ![c.rid] = AcknowledgeUpdate(@, out'.uid)]
                   /\ users' = users
                   /\ calls'[Len(calls')].service = "notary"
              [] c.op = "resolveReport" ->
                   /\ out' = Respond(c.op, c.rid, "none", 200, "ok")
                   /\ users' = users
                   /\ \E s \in Slots :
                        /\ slots[s].op = c.op /\ slots[s].rid = c.rid
                        /\ slots'[s] = IdleSlot
                        /\ reports' = [reports EXCEPT
                                         ![c.rid] = SaveDoc(@, slots[s].report,
                                                            slots[s].mods, slots[s].uid)]
              [] c.op = "updateReportStatusResolve" ->
                   /\ out' = Respond(c.op, c.rid, out'.uid, 200, "ok")
                   /\ \E s \in Slots :
                        LET q == slots[s] IN
                          /\ q.op = c.op /\ q.rid = c.rid /\ q.uid = out'.uid
                          /\ slots'[s] = IdleSlot
                          /\ IF q.pc = "saveReport"
                               THEN /\ users' = users
                                    /\ reports' = [reports EXCEPT
                                                     ![c.rid] = SaveDoc(@, q.report,
                                                                        q.mods, q.uid)]
                               ELSE /\ reports' = reports
                                    /\ users' = [users EXCEPT
                                                   ![Payee(q)] = SaveUser(@, q.user, q.umods)]]_vars

\* an acknowledgement whose push call and whose notary call both failed has
\* been answered 200 and is stored
BothFailedStillAcknowledged ==
  /\ out.op = "updateReportAcknowledge" /\ out.code = 200
  /\ Len(calls) = 2
  /\ calls[1].service = "push" /\ calls[1].outcome = "failed"
  /\ calls[2].service = "notary" /\ calls[2].outcome = "failed"
  /\ reports[out.rid].reportStatus = "ACKNOWLEDGED"
  /\ reports[out.rid].acknowledgedBy = out.uid

\* C28: the notary and push calls never hold a response back: no create,
\* acknowledge or resolve request is left waiting for a call that never
\* answers
NeverBlocked == blocked = {}

----------------------------------------------------------------------------
\* the shadow fields of a report
MlFields ==
  {"mlClassified", "mlSeverity", "mlDepartment", "mlTitle", "mlConfidence",
   "mlConflicts"}

\* those that are absent until a classification arrives
MlStringFields == MlFields \ {"mlClassified", "mlConfidence"}

\* C31: the shadow fields change through the webhook only: a report is
\* created unclassified with every other shadow field absent, no step of
\* another handler changes a shadow field of a stored report, and
\* mlClassified, once true, stays true
ShadowOnlyByWebhook ==
  [][\A r \in ReportIds :
       /\ (reports[r] = NoDoc /\ reports'[r] # NoDoc) =>
            /\ out'.op = "createReport"
            /\ ~reports'[r].mlClassified
            /\ reports'[r].mlConfidence = NoConfidence
            /\ \A f \in MlStringFields :
                 reports'[r][f] = Undefined
       /\ (reports[r] # NoDoc /\ out'.op # "mlWebhook") =>
            \A f \in MlFields : reports'[r][f] = reports[r][f]
       /\ reports[r].mlClassified => reports'[r].mlClassified]_vars

\* a classified report has since been upvoted, acknowledged and resolved and
\* still carries the classification
ClassifiedThroughLifecycle ==
  /\ out.op = "resolveReport" /\ out.code = 200
  /\ reports[out.rid].reportStatus = "RESOLVED"
  /\ reports[out.rid].isAcknowledged
  /\ reports[out.rid].upvotes = 1
  /\ reports[out.rid].mlClassified
  /\ reports[out.rid].mlSeverity = "HIGH"
  /\ reports[out.rid].mlDepartment = "Roads"
  /\ reports[out.rid].mlTitle = "Pothole"
  /\ reports[out.rid].mlConfidence = <<9, 8>>

----------------------------------------------------------------------------
\* C32: resetMonthlyPoints zeroes monthlyPoints and keeps points and badge;
\* addPoints(n) adds n to points and to monthlyPoints; no call touches
\* another user; so points grow by exactly the awards made and
\* 0 <= monthlyPoints <= points in every state
PointsLedger ==
  /\ [](\A u \in Users :
          0 <= users[u].monthlyPoints /\ users[u].monthlyPoints <= users[u].points)
  /\ [][\A u \in Users :
          IF out'.op = "resetMonthlyPoints" /\ out'.uid = u
            THEN /\ users'[u].monthlyPoints = 0
                 /\ users'[u].points = users[u].points
                 /\ users'[u].badge = users[u].badge
          ELSE IF out'.op = "addPoints" /\ out'.uid = u
            THEN /\ users'[u].points = users[u].points + out'.body.points
                 /\ users'[u].monthlyPoints
                      = users[u].monthlyPoints + out'.body.points
          ELSE users'[u] = users[u]]_vars

\* a Silver user's month was reset and awarded again: the badge and the 210
\* points stand, the month holds the one award
AwardedAfterReset ==
  /\ out.op = "addPoints"
  /\ users[out.uid].points = 210
  /\ users[out.uid].monthlyPoints = 20
  /\ users[out.uid].badge = "Silver"

----------------------------------------------------------------------------
\* C33: an updateReportStatusResolve that ends in an error leaves the system
\* as the request found it: the report has the status the request read and
\* every user the points they held then
ResolveErrorLeavesNoTrace ==
  [][\A s \in Slots :
       (/\ slots[s].op = "updateReportStatusResolve"
        /\ slots'[s] = IdleSlot
        /\ out'.op = "updateReportStatusResolve" /\ out'.code = 500) =>
         /\ reports'[slots[s].rid].reportStatus = slots[s].oldStatus
         /\ \A u \in Users : users'[u].points = slots[s].was[u]]_vars

\* C34: awards to one user from two different reports add up: once the
\* owner has resolved each of the two reports with one request and both
\* requests are answered, the owner holds two submitter awards, and a user
\* who upvoted both holds two upvoter awards, in points and in monthlyPoints
AwardsAddUp ==
  (/\ started = Cardinality(ReportIds)
   /\ \A s \in Slots : slots[s].pc = "idle"
   /\ \A r \in ReportIds : reports[r].reportStatus = "RESOLVED") =>
     /\ users["u1"].points = Cardinality(ReportIds) * SubmitterAward
     /\ users["u1"].monthlyPoints = Cardinality(ReportIds) * SubmitterAward
     /\ users["u2"].points
          = Cardinality({r \in ReportIds : reports[r].upvotedBy = <<"u2">>})
              * UpvoterAward

====
